---- MODULE Spec2Model ----
(***************************************************************************)
(* Model of the kvraft test harness, src/src/kvraft/config.rs (Config):    *)
(* simulated network topology, server lifecycle, persisted-state roll-over,*)
(* leader lookup, partition construction and begin()/end() bookkeeping.    *)
(*                                                                         *)
(* The driver thread runs one Config operation at a time (&mut self).      *)
(* An operation is split wherever it reads or writes state shared with     *)
(* other threads: each persister read of a roll-over, of log_size() and of *)
(* snapshot_size(), each is_leader() call of leader(), each uniqstring()   *)
(* call, each reading of the clock in end().  Server threads save state    *)
(* and change their leadership report at any time.                         *)
(***************************************************************************)
EXTENDS Naturals, Integers, Sequences, FiniteSets, TLC

\* ---------------------------------------------------------------- bounds
NPeers == 3          \* n of the cluster built for the topology and lifecycle runs
NSaved == 2          \* n of the cluster built for the runs with saving servers and sessions
MaxN == 5            \* largest n for which make_partition()/leader() are run
MaxRolls == 2        \* persister roll-overs (shutdown_server/start_server calls)
MaxTopoOps == 2      \* topology calls of the driver on a cluster that is never restarted
MaxLinkOps == 1      \* topology calls of the driver between lifecycle calls
MaxBareStarts == 1   \* start_server calls on a slot that was not shut down first
MaxClients == 2      \* make_client calls of the driver
MaxClientOps == 2    \* connect_client/disconnect_client/delete_client calls of the driver
MaxOtherNames == 1   \* uniqstring() calls of other threads of the process
MaxWrites == 1       \* saves issued by server instances
MaxSizeLen == 2      \* longest raft state saved while log_size()/snapshot_size() run
MaxLeaderMoves == 3  \* times a consensus node gains or loses leadership
MaxLen == 1          \* longest byte string a save writes
MaxRpc == 3          \* RPCs counted by the network
MaxSendPerOp == 2    \* RPCs one clerk operation may need (retries)
MaxTime == 122       \* seconds of wall clock modelled
TickSteps == {60, 61} \* amounts by which the modelled clock advances

\* ------------------------------------------------------ program constants
Budget == 120        \* check_timeout: Duration::from_secs(120)

VARIABLES
  n,            \* Config.n
  kvservers,    \* Config.kvservers: index -> instance id, 0 for None
  saved,        \* Config.saved: index -> persister id
  endnames,     \* Config.endnames: index -> index -> endpoint name
  clerks,       \* Config.clerks: session name -> index -> endpoint name
  next_client_id, \* Config.next_client_id
  start,        \* Config.start
  t0,           \* Config.t0
  rpcs0,        \* Config.rpcs0
  ops,          \* Config.ops
  ID,           \* static ID
  enabled,      \* Network: endpoint name -> enabled flag
  connections,  \* Network: endpoint name -> server name
  servers,      \* Network: registered server names
  total_count,  \* Network: RPCs sent so far
  persist,      \* heap of SimplePersister objects: id -> [raft, snap]
  instPers,     \* server instance id -> id of the persister it was built on
  killed,       \* instances on which kill() was called
  isLeader,     \* instances whose is_leader() currently answers true
  writes,       \* number of saves issued so far by server instances
  pc,           \* position of the driver thread inside a multi-step operation
  tmp,          \* driver local: bytes already read by the running roll-over
  now,          \* wall clock, seconds
  panicked,     \* the driver thread panicked
  dropped,      \* Drop for Config has run
  ret,          \* value returned by the step just taken, NoRet if none
  lastOp,       \* the step just taken (operation name and arguments)
  hist          \* observations kept for the properties (not program state)

cliVars  == <<clerks, next_client_id>>
cfgVars  == <<n, kvservers, saved, endnames, cliVars>>
statVars == <<start, t0, rpcs0, ops>>
netVars  == <<enabled, connections, servers>>
srvVars  == <<persist, instPers, killed, isLeader, writes>>
endVars  == <<panicked, dropped>>
vars == <<n, kvservers, saved, endnames, clerks, next_client_id, start, t0, rpcs0, ops, ID, enabled,
          connections, servers, total_count, persist, instPers, killed,
          isLeader, writes, pc, tmp, now, panicked, dropped, ret, lastOp, hist>>

\* ---------------------------------------------------------------- helpers
Idx == 0 .. (n - 1)

Idle == [op |-> "idle", i |-> 0, at |-> ""]

NoRet == << >>

\* a step of a server thread, the clock or the network
EnvStep == [op |-> "env"]

DigitChars == <<"0", "1", "2", "3", "4", "5", "6", "7", "8", "9">>

\* format!("{}", k): the decimal digits of k, most significant first
RECURSIVE Fmt(_)
Fmt(k) == IF k < 10 THEN <<DigitChars[k + 1]>>
          ELSE Fmt(k \div 10) \o <<DigitChars[(k % 10) + 1]>>

\* uniqstring(): ID.fetch_add(1) returns the old value, formatted
uniqstring(id) == Fmt(id)

\* a counter update that loses the increment
FetchAddLost(id) == id

\* ID.fetch_add(1, Ordering::Relaxed): the value ID holds afterwards
FetchAdd(id) == id + 1

\* the value of ID after k calls of uniqstring() that started from id
RECURSIVE IdAfter(_, _)
IdAfter(id, k) == IF k = 0 THEN id ELSE IdAfter(FetchAdd(id), k - 1)

\* the names produced by `(0..n).map(|_| uniqstring()).collect()`
FreshNames(id, nn) == [j \in 0 .. (nn - 1) |-> uniqstring(IdAfter(id, j))]

Range(f) == {f[x] : x \in DOMAIN f}

\* Network::enable(name, flag)
Enable(en, name, flag) == (name :> flag) @@ en

\* the value of e, computed before it is used
Eval(e) == CHOOSE v \in {e} : TRUE

\* Network::enable(name, flag) for every name of a list, in order: each name
\* of the list ends with the flag, whatever the order
EnableAll(en, names, flag) == [x \in Range(names) |-> flag] @@ en

\* a sequence enumerating the set S of naturals in increasing order
RECURSIVE Ascending(_)
Ascending(S) == IF S = {} THEN <<>>
                ELSE LET m == CHOOSE x \in S : \A y \in S : x <= y
                     IN <<m>> \o Ascending(S \ {m})

\* all(): (0..self.n).collect()
All == Ascending(Idx)

\* SimplePersister::new()
NewPersister == [raft |-> <<>>, snap |-> <<>>]

\* SimplePersister::save_state_and_snapshot
SaveStateAndSnapshot(p, r, s) == [p EXCEPT !.raft = r, !.snap = s]

\* the enabled flag of the directed link i -> j as the harness names it now
Link(i, j) == LET nm == endnames[i][j]
              IN nm \in DOMAIN enabled /\ enabled[nm]

\* Vec::is_empty()
IsEmpty(v) == DOMAIN v = {}

\* connect(i, to): outgoing names first, then incoming names
Connect(en, i, to) ==
  LET out == [k \in 1 .. Len(to) |-> endnames[i][to[k]]]
      inc == [k \in 1 .. Len(to) |-> endnames[to[k]][i]]
  IN EnableAll(EnableAll(en, out, TRUE), inc, TRUE)

\* the names disconnect() touches in one of its loops: entries whose row of
\* endnames is empty are skipped
RECURSIVE NonEmptyRows(_, _, _)
NonEmptyRows(i, from, outgoing) ==
  IF from = <<>> THEN <<>>
  ELSE LET j == Head(from)
           row == IF outgoing THEN i ELSE j
           col == IF outgoing THEN j ELSE i
       IN (IF ~IsEmpty(endnames[row]) THEN <<endnames[row][col]>> ELSE <<>>)
          \o NonEmptyRows(i, Tail(from), outgoing)

\* disconnect(i, from): outgoing names first, then incoming names
Disconnect(en, i, from) ==
  EnableAll(EnableAll(en, NonEmptyRows(i, from, TRUE), FALSE),
            NonEmptyRows(i, from, FALSE), FALSE)

\* connect_all() whose loop stops after its first peer
ConnectEachFirst(en, is) ==
  IF is = <<>> THEN en ELSE Connect(en, Head(is), All)

\* connect_all(): for i in 0..n { connect(i, all()) }
RECURSIVE ConnectEach(_, _)
ConnectEach(en, is) ==
  IF is = <<>> THEN en
  ELSE ConnectEach(Eval(Connect(en, Head(is), All)), Tail(is))

ConnectAllOp(en) == ConnectEach(en, All)

\* a loop of partition() that connects the group and never disconnects the other
RECURSIVE PartitionLoopNoDisconnect(_, _, _, _)
PartitionLoopNoDisconnect(en, rest, mine, other) ==
  IF rest = <<>> THEN en
  ELSE PartitionLoopNoDisconnect(Eval(Connect(en, Head(rest), mine)),
                                 Tail(rest), mine, other)

\* one loop of partition(): for i in mine { disconnect(i, other); connect(i, mine) }
RECURSIVE PartitionLoop(_, _, _, _)
PartitionLoop(en, rest, mine, other) ==
  IF rest = <<>> THEN en
  ELSE PartitionLoop(Eval(Connect(Eval(Disconnect(en, Head(rest), other)),
                                  Head(rest), mine)),
                     Tail(rest), mine, other)

\* partition(p1, p2)
PartitionOp(en, p1, p2) ==
  PartitionLoop(Eval(PartitionLoop(en, p1, p1, p2)), p2, p2, p1)

\* the largest element of the set S of naturals, 0 when S is empty
MaxOf(S) == IF S = {} THEN 0 ELSE CHOOSE m \in S : \A x \in S : x <= m

\* the longest raft state and the longest snapshot self.saved holds now
MaxLog == MaxOf({Len(persist[saved[i]].raft) : i \in Idx})

MaxSnap == MaxOf({Len(persist[saved[i]].snap) : i \in Idx})

\* a turn of log_size()'s loop that skips the servers that are down
LogSizeTurnLive(i, logsize) ==
  LET len == Len(persist[saved[i]].raft)
  IN IF kvservers[i] # 0 /\ len > logsize THEN len ELSE logsize

\* one turn of log_size()'s loop: save.raft_state().len() against the
\* running maximum
LogSizeTurn(i, logsize) ==
  LET len == Len(persist[saved[i]].raft)
  IN IF len > logsize THEN len ELSE logsize

\* one turn of snapshot_size()'s loop: save.snapshot().len() against the
\* running maximum
SnapshotSizeTurn(i, snapshotsize) ==
  LET len == Len(persist[saved[i]].snap)
  IN IF len > snapshotsize THEN len ELSE snapshotsize

\* a turn of leader()'s loop that asks whichever instance was built for the
\* index, in its slot or not
LeaderTurnAnyInstance(i) ==
  \E k \in isLeader : k \in DOMAIN hist.slot /\ hist.slot[k] = i

\* one turn of leader()'s loop: the slot is Some(kv) and kv.is_leader()
LeaderTurn(i) == kvservers[i] # 0 /\ kvservers[i] \in isLeader

\* the loop of make_partition() without its `i != l` test
RECURSIVE MakePartitionFromAll(_, _, _, _)
MakePartitionFromAll(i, l, p1, p2) ==
  IF i >= n THEN <<p1, p2>>
  ELSE IF Len(p1) + 1 < (n \div 2) + 1
       THEN MakePartitionFromAll(i + 1, l, Append(p1, i), p2)
       ELSE MakePartitionFromAll(i + 1, l, p1, Append(p2, i))

\* the loop of make_partition() from index i on
RECURSIVE MakePartitionFrom(_, _, _, _)
MakePartitionFrom(i, l, p1, p2) ==
  IF i >= n THEN <<p1, p2>>
  ELSE IF i # l
       THEN IF Len(p1) + 1 < (n \div 2) + 1
            THEN MakePartitionFrom(i + 1, l, Append(p1, i), p2)
            ELSE MakePartitionFrom(i + 1, l, p1, Append(p2, i))
       ELSE MakePartitionFrom(i + 1, l, p1, p2)

\* make_partition() once leader() answered r: l = r.unwrap_or(0); the loop;
\* p2.push(l)
MakePartitionOp(r) ==
  LET l == IF r.ok THEN r.val ELSE 0
      g == MakePartitionFrom(0, l, <<>>, <<>>)
  IN <<g[1], Append(g[2], l)>>

\* check_timeout() measuring from begin() instead of from construction
CheckTimeoutFromBegin == now - t0 > Budget

\* check_timeout(): TRUE when it panics
CheckTimeout == now - start > Budget

\* ------------------------------------------------- observations (history)
NoRound == [open |-> FALSE,         \* shut down and not started since
            restart |-> FALSE,      \* the last start_server followed a shutdown_server
            inst |-> 0,             \* instance in the slot when the shutdown began
            raft |-> <<>>, snap |-> <<>>, log |-> 0, ssize |-> 0,
            anyWrote |-> FALSE]

NoHist == [topo |-> 0,             \* topology operations the driver may still call
           fresh |-> {},           \* indices started and not yet named by a connect
           allConn |-> FALSE,      \* connect_all() ran, only reads since
           sd |-> << >>,           \* index -> what its last shutdown_server saw
           handed |-> << >>,       \* instance -> bytes it was constructed from
           begun |-> FALSE,        \* begin() has been called
           issued |-> 0,           \* clerk operations since the last begin()
           base |-> 0,             \* total_count at the last begin()
           names |-> << >>,        \* every name uniqstring() returned, in order
           made |-> 0,             \* make_client calls so far
           cops |-> 0,             \* session operations called so far
           others |-> 0,           \* uniqstring() calls of other threads so far
           sessions |-> {},        \* names of the sessions make_client returned
           bare |-> 0,             \* start_server calls on a Running slot still to come
           slot |-> << >>,         \* instance -> index it was built for
           replaced |-> {},        \* instances a start_server took out of a Running slot
           saves |-> << >>,        \* save number -> who saved what
           wr |-> 0,               \* saves the server instances may still issue
           moves |-> 0,            \* leadership changes so far
           scan |-> [moved |-> FALSE,  \* a save or a leadership change ran during the scan
                     seen |-> << >>],  \* index -> what the scan read there
           acked |-> {}]           \* saves whose positive reply reached a client

\* ------------------------------------------------------------------- Init
\* The state Config::new(nn, ..) returns: every server started once by
\* start_server(i), i = 0..nn-1, then connect_all().  topoOps is the number
\* of topology operations the driver goes on to call, bareStarts the number
\* of times it calls start_server(i) without shutdown_server(i) before it,
\* saveOps the number of saves the server instances go on to issue.
InitN(nn, topoOps, bareStarts, saveOps) ==
  /\ n = nn
  /\ kvservers = [i \in 0 .. (nn - 1) |-> i + 1]
  /\ saved = [i \in 0 .. (nn - 1) |-> i + 1]
  /\ endnames = [i \in 0 .. (nn - 1) |-> FreshNames(IdAfter(0, i * nn), nn)]
  /\ clerks = << >>
  /\ next_client_id = nn + 1000
  /\ start = 0
  /\ t0 = 0
  /\ rpcs0 = 0
  /\ ops = 0
  /\ ID = IdAfter(0, nn * nn)
  /\ enabled = [x \in {Fmt(k) : k \in 0 .. (nn * nn - 1)} |-> TRUE]
  /\ connections = [x \in {Fmt(k) : k \in 0 .. (nn * nn - 1)} |->
                      LET k == CHOOSE k \in 0 .. (nn * nn - 1) : Fmt(k) = x
                      IN Fmt(k % nn)]
  /\ servers = {Fmt(i) : i \in 0 .. (nn - 1)}
  /\ total_count = 0
  /\ persist = [p \in 1 .. nn |-> NewPersister]
  /\ instPers = [k \in 1 .. nn |-> k]
  /\ killed = {}
  /\ isLeader = {}
  /\ writes = 0
  /\ pc = Idle
  /\ tmp = <<>>
  /\ now = 0
  /\ panicked = FALSE
  /\ dropped = FALSE
  /\ ret = NoRet
  /\ lastOp = [op |-> "new"]
  /\ hist = [NoHist EXCEPT !.topo = topoOps,
                             !.bare = bareStarts,
                             !.wr = saveOps,
                             !.names = [k \in 1 .. nn * nn |->
                                          uniqstring(IdAfter(0, k - 1))],
                             !.sd = [i \in 0 .. (nn - 1) |-> NoRound],
                             !.handed = [k \in 1 .. nn |-> <<(<<>>), (<<>>)>>],
                             !.slot = [k \in 1 .. nn |-> k - 1]]

Init == InitN(NPeers, MaxLinkOps, 0, 0)

\* the driver thread is between operations and the Config is still usable
Ready == pc = Idle /\ ~dropped /\ ~panicked

\* index lists handed to partition: every set of indices, in increasing order
IdxSeqs == {Ascending(S) : S \in SUBSET Idx}

\* index lists handed to connect/disconnect: one index, or all of them
ToSeqs == {<<j>> : j \in Idx} \cup {All}

\* the byte string of length len written by save number w
Bytes(w, len) == [x \in 1 .. len |-> w]

\* ------------------------------------------------------ topology operations
ConnectAct(i, to) ==
  /\ Ready
  /\ hist.topo > 0
  /\ enabled' = Connect(enabled, i, to)
  /\ ret' = NoRet
  /\ lastOp' = [op |-> "connect"]
  /\ hist' = [hist EXCEPT !.topo = @ - 1, !.allConn = FALSE,
                          !.fresh = @ \ ({i} \cup Range(to))]
  /\ UNCHANGED <<cfgVars, statVars, ID, connections, servers, total_count,
                 srvVars, pc, tmp, now, endVars>>

DisconnectAct(i, from) ==
  /\ Ready
  /\ hist.topo > 0
  /\ enabled' = Disconnect(enabled, i, from)
  /\ ret' = NoRet
  /\ lastOp' = [op |-> "disconnect"]
  /\ hist' = [hist EXCEPT !.topo = @ - 1, !.allConn = FALSE]
  /\ UNCHANGED <<cfgVars, statVars, ID, connections, servers, total_count,
                 srvVars, pc, tmp, now, endVars>>

ConnectAllAct ==
  /\ Ready
  /\ hist.topo > 0
  /\ enabled' = ConnectAllOp(enabled)
  /\ ret' = NoRet
  /\ lastOp' = [op |-> "connect_all"]
  /\ hist' = [hist EXCEPT !.topo = @ - 1, !.fresh = {},
                          !.allConn = (\A i \in Idx : kvservers[i] # 0)]
  /\ UNCHANGED <<cfgVars, statVars, ID, connections, servers, total_count,
                 srvVars, pc, tmp, now, endVars>>

PartitionAct(p1, p2) ==
  /\ Ready
  /\ hist.topo > 0
  /\ Range(p1) \cap Range(p2) = {}
  /\ enabled' = PartitionOp(enabled, p1, p2)
  /\ ret' = NoRet
  /\ lastOp' = [op |-> "partition", p1 |-> p1, p2 |-> p2]
  /\ hist' = [hist EXCEPT !.topo = @ - 1, !.allConn = FALSE,
                          !.fresh = @ \ (Range(p1) \cup Range(p2))]
  /\ UNCHANGED <<cfgVars, statVars, ID, connections, servers, total_count,
                 srvVars, pc, tmp, now, endVars>>

\* ------------------------------------------------------------ read operations
\* all(): reads nothing but self.n
AllAct ==
  /\ Ready
  /\ ret' = All
  /\ lastOp' = [op |-> "all"]
  /\ UNCHANGED <<cfgVars, statVars, ID, netVars, total_count, srvVars, pc,
                 tmp, now, endVars, hist>>

\* nothing observed yet by the scan that is starting
NoScan == [moved |-> FALSE, seen |-> << >>]

\* turn i of the loop of log_size() (op = "log_size") or snapshot_size():
\* one call of raft_state() or snapshot() on self.saved[i], which takes and
\* releases the lock of that persister; the value is returned after the
\* last turn
SizeScan(op, i, acc) ==
  LET v == IF op = "log_size" THEN LogSizeTurn(i, acc)
           ELSE SnapshotSizeTurn(i, acc)
      len == IF op = "log_size" THEN Len(persist[saved[i]].raft)
             ELSE Len(persist[saved[i]].snap)
      done == i + 1 >= n
  IN /\ pc' = IF done THEN Idle
              ELSE [op |-> op, i |-> i + 1, at |-> "read", acc |-> v]
     /\ ret' = IF done THEN v ELSE NoRet
     /\ lastOp' = IF done
                  THEN [op |-> op, seen |-> (i :> len) @@ hist.scan.seen,
                        moved |-> hist.scan.moved]
                  ELSE [op |-> "read", of |-> op, i |-> i]
     /\ hist' = [hist EXCEPT !.scan =
                   IF done THEN NoScan
                   ELSE [hist.scan EXCEPT !.seen = (i :> len) @@ @]]
     /\ UNCHANGED <<cfgVars, statVars, ID, netVars, total_count, srvVars,
                    tmp, now, endVars>>

\* log_size(): entry and first turn (logsize = 0)
LogSizeAct == Ready /\ SizeScan("log_size", 0, 0)

\* log_size(): a later turn
LogSizeNext == pc.op = "log_size" /\ SizeScan("log_size", pc.i, pc.acc)

\* snapshot_size(): entry and first turn (snapshotsize = 0)
SnapshotSizeAct == Ready /\ SizeScan("snapshot_size", 0, 0)

\* snapshot_size(): a later turn
SnapshotSizeNext ==
  pc.op = "snapshot_size" /\ SizeScan("snapshot_size", pc.i, pc.acc)

\* turn i of the loop of leader(), run by leader() itself (op = "leader") or
\* by make_partition(): at most one call of is_leader(), on the node in slot
\* i.  The first node that answers true ends the loop; after the last turn
\* the answer is Err(NoLeader).  make_partition() goes on with locals only.
LeaderScan(op, i) ==
  LET hit == LeaderTurn(i)
      done == hit \/ i + 1 >= n
      r == IF hit THEN [ok |-> TRUE, val |-> i]
           ELSE [ok |-> FALSE, err |-> "NoLeader"]
      asked == IF kvservers[i] # 0
               THEN (i :> (kvservers[i] \in isLeader)) ELSE << >>
  IN /\ pc' = IF done THEN Idle ELSE [op |-> op, i |-> i + 1, at |-> "is_leader"]
     /\ ret' = IF ~done THEN NoRet
               ELSE IF op = "leader" THEN r ELSE MakePartitionOp(r)
     /\ lastOp' = IF done
                  THEN [op |-> op, found |-> r, seen |-> asked @@ hist.scan.seen,
                        moved |-> hist.scan.moved]
                  ELSE [op |-> "is_leader", of |-> op, i |-> i]
     /\ hist' = [hist EXCEPT !.scan =
                   IF done THEN NoScan
                   ELSE [hist.scan EXCEPT !.seen = asked @@ @]]
     /\ UNCHANGED <<cfgVars, statVars, ID, netVars, total_count, srvVars,
                    tmp, now, endVars>>

\* leader(): entry and first turn
LeaderAct == Ready /\ LeaderScan("leader", 0)

\* leader(): a later turn
LeaderNext == pc.op = "leader" /\ LeaderScan("leader", pc.i)

\* make_partition(): entry and the first turn of its leader() call
MakePartitionAct == Ready /\ LeaderScan("make_partition", 0)

\* make_partition(): a later turn of its leader() call; the last one also
\* builds the two groups
MakePartitionNext ==
  pc.op = "make_partition" /\ LeaderScan("make_partition", pc.i)

\* ------------------------------------------------------------ shutdown_server
\* Config.saved after the roll-over of index i onto the persister newId
RolledSaved(i, newId) == [saved EXCEPT ![i] = newId]

\* the persister a roll-over builds from the bytes (r, s) it read
RollOver(r, s) == SaveStateAndSnapshot(NewPersister, r, s)

\* self.disconnect(i, &self.all())
ShutdownDisconnect(i) ==
  /\ Ready
  /\ Len(persist) - n < MaxRolls
  /\ enabled' = Disconnect(enabled, i, All)
  /\ pc' = [op |-> "shutdown_server", i |-> i, at |-> "delete_server"]
  /\ ret' = NoRet
  /\ lastOp' = [op |-> "shutdown_server:disconnect", i |-> i]
  /\ hist' = [hist EXCEPT !.allConn = FALSE,
                !.sd[i] = [open |-> TRUE, restart |-> FALSE,
                           inst |-> kvservers[i],
                           raft |-> persist[saved[i]].raft,
                           snap |-> persist[saved[i]].snap, log |-> MaxLog,
                           ssize |-> MaxSnap, anyWrote |-> FALSE]]
  /\ UNCHANGED <<cfgVars, statVars, ID, connections, servers, total_count,
                 srvVars, tmp, now, endVars>>

\* shutdown_server without its delete_server call
ShutdownDeleteServerSkip ==
  /\ pc.op = "shutdown_server" /\ pc.at = "delete_server"
  /\ pc' = [pc EXCEPT !.at = "raft_state"]
  /\ ret' = NoRet
  /\ lastOp' = [op |-> "shutdown_server:delete_server", i |-> pc.i]
  /\ UNCHANGED <<cfgVars, statVars, ID, netVars, total_count,
                 srvVars, tmp, now, endVars, hist>>

\* self.net.delete_server(&format!("{}", i))
ShutdownDeleteServer ==
  /\ pc.op = "shutdown_server" /\ pc.at = "delete_server"
  /\ servers' = servers \ {Fmt(pc.i)}
  /\ pc' = [pc EXCEPT !.at = "raft_state"]
  /\ ret' = NoRet
  /\ lastOp' = [op |-> "shutdown_server:delete_server", i |-> pc.i]
  /\ UNCHANGED <<cfgVars, statVars, ID, enabled, connections, total_count,
                 srvVars, tmp, now, endVars, hist>>

\* self.saved[i].raft_state(), the first argument of the copy
ShutdownReadRaft ==
  /\ pc.op = "shutdown_server" /\ pc.at = "raft_state"
  /\ tmp' = persist[saved[pc.i]].raft
  /\ pc' = [pc EXCEPT !.at = "snapshot"]
  /\ ret' = NoRet
  /\ lastOp' = [op |-> "shutdown_server:raft_state", i |-> pc.i]
  /\ UNCHANGED <<cfgVars, statVars, ID, netVars, total_count, srvVars, now,
                 endVars, hist>>

\* self.saved[i].snapshot(), the copy into the fresh persister, and
\* self.saved[i] = Arc::new(p)
ShutdownRollOver ==
  /\ pc.op = "shutdown_server" /\ pc.at = "snapshot"
  /\ persist' = Append(persist, RollOver(tmp, persist[saved[pc.i]].snap))
  /\ saved' = RolledSaved(pc.i, Len(persist) + 1)
  /\ tmp' = <<>>
  /\ pc' = [pc EXCEPT !.at = "kill"]
  /\ ret' = NoRet
  /\ lastOp' = [op |-> "shutdown_server:roll_over", i |-> pc.i]
  /\ UNCHANGED <<n, kvservers, endnames, cliVars, statVars, ID, netVars, total_count,
                 instPers, killed, isLeader, writes, now, endVars, hist>>

\* shutdown_server that unwraps the slot: `self.kvservers[i].take().unwrap().kill()`
ShutdownKillUnwrap ==
  /\ pc.op = "shutdown_server" /\ pc.at = "kill"
  /\ IF kvservers[pc.i] # 0
     THEN /\ killed' = killed \cup {kvservers[pc.i]}
          /\ kvservers' = [kvservers EXCEPT ![pc.i] = 0]
          /\ UNCHANGED panicked
     ELSE /\ panicked' = TRUE
          /\ UNCHANGED <<killed, kvservers>>
  /\ pc' = Idle
  /\ ret' = NoRet
  /\ lastOp' = [op |-> "shutdown_server", i |-> pc.i]
  /\ UNCHANGED <<n, saved, endnames, cliVars, statVars, ID, netVars,
                 total_count, persist, instPers, isLeader, writes, tmp, now,
                 dropped, hist>>

\* shutdown_server that takes the instance out of its slot and does not kill it
ShutdownKillNoKill ==
  /\ pc.op = "shutdown_server" /\ pc.at = "kill"
  /\ kvservers' = [kvservers EXCEPT ![pc.i] = 0]
  /\ pc' = Idle
  /\ ret' = NoRet
  /\ lastOp' = [op |-> "shutdown_server", i |-> pc.i]
  /\ UNCHANGED <<n, saved, endnames, cliVars, statVars, ID, netVars,
                 total_count, srvVars, tmp, now, endVars, hist>>

\* if let Some(kv) = self.kvservers[i].take() { kv.kill() }
ShutdownKill ==
  /\ pc.op = "shutdown_server" /\ pc.at = "kill"
  /\ IF kvservers[pc.i] # 0
     THEN /\ killed' = killed \cup {kvservers[pc.i]}
          /\ kvservers' = [kvservers EXCEPT ![pc.i] = 0]
     ELSE UNCHANGED <<killed, kvservers>>
  /\ pc' = Idle
  /\ ret' = NoRet
  /\ lastOp' = [op |-> "shutdown_server", i |-> pc.i]
  /\ UNCHANGED <<n, saved, endnames, cliVars, statVars, ID, netVars, total_count,
                 persist, instPers, isLeader, writes, tmp, now, endVars, hist>>

\* --------------------------------------------------------------- start_server
\* Network::create_client(name) for every name of the row: registered, disabled
CreateClients(en, row) == [x \in Range(row) |-> FALSE] @@ en

\* Network::connect(name, &format!("{}", j)) for every name of the row
ConnectEnds(cn, row) ==
  [x \in Range(row) |-> Fmt(CHOOSE j \in DOMAIN row : row[j] = x)] @@ cn

\* start_server that also enables the ends it creates
StartClientsEnabled(en, row) == [x \in Range(row) |-> TRUE] @@ en

\* the network flags after start_server created one client end per fresh
\* name: nothing in start_server enables them
StartClients(en, row) == CreateClients(en, row)

\* turn j of `(0..self.n).map(|_| uniqstring()).collect()`, names holding
\* the names drawn before it.  The last turn completes the row: it becomes
\* endnames[i], and one client end is created per name and connected to
\* server j; nothing there is shared with another thread.
StartDraw(i, j, names, h) ==
  LET name == uniqstring(ID)
      row == (j :> name) @@ names
      full == j + 1 >= n
  IN /\ ID' = FetchAdd(ID)
     /\ IF full
        THEN /\ endnames' = [endnames EXCEPT ![i] = row]
             /\ enabled' = StartClients(enabled, row)
             /\ connections' = ConnectEnds(connections, row)
             /\ pc' = [op |-> "start_server", i |-> i, at |-> "raft_state"]
             /\ lastOp' = [op |-> "start_server:endnames", i |-> i]
             /\ hist' = [h EXCEPT !.names = Append(@, name),
                                  !.allConn = FALSE,
                                  !.fresh = @ \cup {i}]
        ELSE /\ pc' = [op |-> "start_server", i |-> i, at |-> "name",
                       j |-> j + 1, names |-> row]
             /\ lastOp' = [op |-> "start_server:name", i |-> i]
             /\ hist' = [h EXCEPT !.names = Append(@, name)]
             /\ UNCHANGED <<endnames, enabled, connections>>
     /\ ret' = NoRet
     /\ UNCHANGED <<n, kvservers, saved, cliVars, statVars, servers,
                    total_count, srvVars, tmp, now, endVars>>

\* start_server(i), entry and the first name of the row.  Nothing in
\* start_server looks at the slot: a caller that did not call
\* shutdown_server first (config.rs:254) starts a server next to the old
\* one.  Such calls are drawn as long as the run allows them.
StartEndnames(i) ==
  /\ Ready
  /\ kvservers[i] = 0 \/ hist.bare > 0
  /\ Len(persist) - n < MaxRolls
  /\ StartDraw(i, 0, << >>,
               [hist EXCEPT !.bare = IF kvservers[i] = 0 THEN @ ELSE @ - 1])

\* start_server(i), a later name of the row
StartName ==
  /\ pc.op = "start_server" /\ pc.at = "name"
  /\ StartDraw(pc.i, pc.j, pc.names, hist)

\* self.saved[i].raft_state(), the first argument of the copy
StartReadRaft ==
  /\ pc.op = "start_server" /\ pc.at = "raft_state"
  /\ tmp' = persist[saved[pc.i]].raft
  /\ pc' = [pc EXCEPT !.at = "snapshot"]
  /\ ret' = NoRet
  /\ lastOp' = [op |-> "start_server:raft_state", i |-> pc.i]
  /\ UNCHANGED <<cfgVars, statVars, ID, netVars, total_count, srvVars, now,
                 endVars, hist>>

\* self.saved[i].snapshot(), the copy, saved[i] = p, KvServer::new on p,
\* kvservers[i] = Some(..), net.add_server
StartBuild ==
  /\ pc.op = "start_server" /\ pc.at = "snapshot"
  /\ LET p == RollOver(tmp, persist[saved[pc.i]].snap)
     IN /\ persist' = Append(persist, p)
        /\ hist' = [hist EXCEPT !.handed = Append(@, <<p.raft, p.snap>>),
                                !.sd[pc.i].open = FALSE,
                                !.sd[pc.i].restart = hist.sd[pc.i].open,
                                !.slot = Append(@, pc.i),
                                !.replaced = @ \cup ({kvservers[pc.i]} \ {0})]
  /\ saved' = RolledSaved(pc.i, Len(persist) + 1)
  /\ instPers' = Append(instPers, Len(persist) + 1)
  /\ kvservers' = [kvservers EXCEPT ![pc.i] = Len(instPers) + 1]
  /\ servers' = servers \cup {Fmt(pc.i)}
  /\ tmp' = <<>>
  /\ pc' = Idle
  /\ ret' = NoRet
  /\ lastOp' = [op |-> "start_server", i |-> pc.i]
  /\ UNCHANGED <<n, endnames, cliVars, statVars, ID, enabled, connections, total_count,
                 killed, isLeader, writes, now, endVars>>

\* ------------------------------------------------------------------ sessions
\* make_client(to), entry: empty `ends` and `endnames`
MakeClientBegin(to) ==
  /\ Ready
  /\ hist.made < MaxClients
  /\ pc' = [op |-> "make_client", i |-> 0, at |-> "name", names |-> << >>,
            to |-> to]
  /\ ret' = NoRet
  /\ lastOp' = [op |-> "make_client:begin"]
  /\ hist' = [hist EXCEPT !.made = @ + 1]
  /\ UNCHANGED <<cfgVars, statVars, ID, netVars, total_count, srvVars, tmp,
                 now, endVars>>

\* one turn of `for j in 0..self.n`: a fresh name, a client end registered
\* for it and connected to server j
MakeClientName ==
  /\ pc.op = "make_client" /\ pc.at = "name" /\ pc.i < n
  /\ LET name == uniqstring(ID)
     IN /\ enabled' = CreateClients(enabled, <<name>>)
        /\ connections' = (name :> Fmt(pc.i)) @@ connections
        /\ pc' = [pc EXCEPT !.i = @ + 1, !.names = (pc.i :> name) @@ @]
        /\ hist' = [hist EXCEPT !.names = Append(@, name)]
  /\ ID' = FetchAdd(ID)
  /\ ret' = NoRet
  /\ lastOp' = [op |-> "make_client:name"]
  /\ UNCHANGED <<cfgVars, statVars, servers, total_count, srvVars, tmp, now,
                 endVars>>

\* the loop of connect_client(ck, to) over the session's endnames
ConnectClient(en, names, to) ==
  EnableAll(en, [k \in 1 .. Len(to) |-> names[to[k]]], TRUE)

\* disconnect_client(ck, from) that disables the ends of every session
DisconnectClientEvery(en, names, from) ==
  LET every == UNION {{clerks[c][from[k]] : k \in 1 .. Len(from)} :
                        c \in DOMAIN clerks}
  IN [x \in every |-> FALSE] @@ en

\* the loop of disconnect_client(ck, from) over the session's endnames
DisconnectClient(en, names, from) ==
  EnableAll(en, [k \in 1 .. Len(from) |-> names[from[k]]], FALSE)

\* the session name, Clerk::new, clerks.insert, next_client_id += 1,
\* connect_client(&ck, to)
MakeClientFinish ==
  /\ pc.op = "make_client" /\ pc.at = "name" /\ pc.i = n
  /\ LET ck_name == uniqstring(ID)
     IN /\ clerks' = (ck_name :> pc.names) @@ clerks
        /\ enabled' = ConnectClient(enabled, pc.names, pc.to)
        /\ ret' = ck_name
        /\ lastOp' = [op |-> "make_client", ck |-> ck_name, to |-> pc.to]
        /\ hist' = [hist EXCEPT !.names = Append(@, ck_name),
                                !.sessions = @ \cup {ck_name}]
  /\ ID' = FetchAdd(ID)
  /\ next_client_id' = next_client_id + 1
  /\ pc' = Idle
  /\ UNCHANGED <<n, kvservers, saved, endnames, statVars, connections,
                 servers, total_count, srvVars, tmp, now, endVars>>

\* delete_client(ck): self.clerks.remove(&ck.name)
DeleteClientAct(ck) ==
  /\ Ready
  /\ hist.cops < MaxClientOps
  /\ clerks' = [c \in DOMAIN clerks \ {ck} |-> clerks[c]]
  /\ ret' = NoRet
  /\ lastOp' = [op |-> "delete_client", ck |-> ck]
  /\ hist' = [hist EXCEPT !.cops = @ + 1]
  /\ UNCHANGED <<n, kvservers, saved, endnames, next_client_id, statVars, ID,
                 netVars, total_count, srvVars, pc, tmp, now, endVars>>

\* connect_client(ck, to): `&self.clerks[&ck.name]` panics when the session
\* has no entry
ConnectClientAct(ck, to) ==
  /\ Ready
  /\ hist.cops < MaxClientOps
  /\ IF ck \in DOMAIN clerks
     THEN /\ enabled' = ConnectClient(enabled, clerks[ck], to)
          /\ UNCHANGED panicked
     ELSE /\ panicked' = TRUE
          /\ UNCHANGED enabled
  /\ ret' = NoRet
  /\ lastOp' = [op |-> "connect_client", ck |-> ck, to |-> to,
                raised |-> ck \notin DOMAIN clerks]
  /\ hist' = [hist EXCEPT !.cops = @ + 1]
  /\ UNCHANGED <<cfgVars, statVars, ID, connections, servers, total_count,
                 srvVars, pc, tmp, now, dropped>>

\* disconnect_client(ck, from): `&self.clerks[&ck.name]` panics when the
\* session has no entry
DisconnectClientAct(ck, from) ==
  /\ Ready
  /\ hist.cops < MaxClientOps
  /\ IF ck \in DOMAIN clerks
     THEN /\ enabled' = DisconnectClient(enabled, clerks[ck], from)
          /\ UNCHANGED panicked
     ELSE /\ panicked' = TRUE
          /\ UNCHANGED enabled
  /\ ret' = NoRet
  /\ lastOp' = [op |-> "disconnect_client", ck |-> ck, from |-> from,
                raised |-> ck \notin DOMAIN clerks]
  /\ hist' = [hist EXCEPT !.cops = @ + 1]
  /\ UNCHANGED <<cfgVars, statVars, ID, connections, servers, total_count,
                 srvVars, pc, tmp, now, dropped>>

\* another thread of the process (a test running next to this one) calls
\* uniqstring()
OtherUniqstring ==
  /\ ~dropped
  /\ hist.others < MaxOtherNames
  /\ ID' = FetchAdd(ID)
  /\ ret' = NoRet
  /\ lastOp' = EnvStep
  /\ hist' = [hist EXCEPT !.names = Append(@, uniqstring(ID)),
                          !.others = @ + 1]
  /\ UNCHANGED <<cfgVars, statVars, netVars, total_count, srvVars, pc, tmp,
                 now, endVars>>

\* ------------------------------------------------------------- server threads
\* instance k saves its state; an instance that was shut down may still do
\* so (config.rs:241-242, 267-268), on the persister it was built on
Save(k, lr, ls) ==
  /\ writes < hist.wr
  /\ ~dropped
  /\ writes' = writes + 1
  /\ persist' = [persist EXCEPT ![instPers[k]] =
                   SaveStateAndSnapshot(@, Bytes(writes + 1, lr),
                                        Bytes(writes + 1, ls))]
  /\ ret' = NoRet
  /\ lastOp' = EnvStep
  /\ hist' = [hist EXCEPT !.sd = [j \in DOMAIN @ |->
                [@[j] EXCEPT !.anyWrote = @ \/ hist.sd[j].open]],
                          !.saves = Append(@, [k |-> k,
                                               raft |-> Bytes(writes + 1, lr),
                                               snap |-> Bytes(writes + 1, ls)]),
                          !.scan.moved = @ \/ pc.op \in {"log_size", "snapshot_size"}]
  /\ UNCHANGED <<cfgVars, statVars, ID, netVars, total_count, instPers,
                 killed, isLeader, pc, tmp, now, endVars>>

\* the Network hands a client the positive reply to the request that made
\* instance k issue save number w: a reply is delivered only while the server
\* that took the request is the one registered under its name
Ack(w) ==
  /\ ~dropped
  /\ w \in DOMAIN hist.saves
  /\ w \notin hist.acked
  /\ LET k == hist.saves[w].k
         i == hist.slot[k]
     IN kvservers[i] = k /\ Fmt(i) \in servers
  /\ ret' = NoRet
  /\ lastOp' = EnvStep
  /\ hist' = [hist EXCEPT !.acked = @ \cup {w}]
  /\ UNCHANGED <<cfgVars, statVars, ID, netVars, total_count, srvVars, pc,
                 tmp, now, endVars>>

\* the consensus node of instance k gains or loses leadership
LeaderChange(k) ==
  /\ ~dropped
  /\ k \notin killed
  /\ hist.moves < MaxLeaderMoves
  /\ isLeader' = IF k \in isLeader THEN isLeader \ {k} ELSE isLeader \cup {k}
  /\ ret' = NoRet
  /\ lastOp' = EnvStep
  /\ hist' = [hist EXCEPT !.moves = @ + 1,
                          !.scan.moved = @ \/ pc.op \in {"leader", "make_partition"}]
  /\ UNCHANGED <<cfgVars, statVars, ID, netVars, total_count, persist,
                 instPers, killed, writes, pc, tmp, now, endVars>>

\* --------------------------------------------------------- begin / end / drop
Tick(d) ==
  /\ ~dropped
  /\ now + d <= MaxTime
  /\ now' = now + d
  /\ ret' = NoRet
  /\ lastOp' = EnvStep
  /\ UNCHANGED <<cfgVars, statVars, ID, netVars, total_count, srvVars, pc,
                 tmp, endVars, hist>>

\* a clerk get/put/append: at least one RPC goes through the network.
\* Nothing in config.rs touches Config.ops here.
ClientOp(sent) ==
  /\ ~dropped /\ ~panicked
  /\ total_count + sent <= MaxRpc
  /\ total_count' = total_count + sent
  /\ ret' = NoRet
  /\ lastOp' = [op |-> "client_op"]
  /\ hist' = [hist EXCEPT !.issued = @ + 1]
  /\ UNCHANGED <<cfgVars, statVars, ID, netVars, srvVars, pc, tmp, now,
                 endVars>>

\* an RPC between the consensus nodes
RaftRpc ==
  /\ ~dropped
  /\ total_count + 1 <= MaxRpc
  /\ total_count' = total_count + 1
  /\ ret' = NoRet
  /\ lastOp' = EnvStep
  /\ UNCHANGED <<cfgVars, statVars, ID, netVars, srvVars, pc, tmp, now,
                 endVars, hist>>

Begin ==
  /\ Ready
  /\ t0' = now
  /\ rpcs0' = total_count
  /\ ops' = 0
  /\ ret' = NoRet
  /\ lastOp' = [op |-> "begin"]
  /\ hist' = [hist EXCEPT !.begun = TRUE, !.issued = 0, !.base = total_count]
  /\ UNCHANGED <<cfgVars, start, ID, netVars, total_count, srvVars, pc, tmp,
                 now, endVars>>

\* end(), entry and self.check_timeout(): start.elapsed() is the first
\* reading of the clock
End ==
  /\ Ready
  /\ IF CheckTimeout
     THEN /\ panicked' = TRUE
          /\ UNCHANGED pc
     ELSE /\ pc' = [op |-> "end", i |-> 0, at |-> "elapsed"]
          /\ UNCHANGED panicked
  /\ ret' = NoRet
  /\ lastOp' = [op |-> "end:check_timeout", elapsed |-> now - start,
                raised |-> CheckTimeout]
  /\ UNCHANGED <<cfgVars, statVars, ID, netVars, total_count, srvVars,
                 tmp, now, dropped, hist>>

\* let t = self.t0.elapsed(): the second reading of the clock
EndElapsed ==
  /\ pc.op = "end" /\ pc.at = "elapsed"
  /\ pc' = [op |-> "end", i |-> 0, at |-> "rpc_total", t |-> now - t0]
  /\ ret' = NoRet
  /\ lastOp' = [op |-> "end:elapsed"]
  /\ UNCHANGED <<cfgVars, statVars, ID, netVars, total_count, srvVars,
                 tmp, now, endVars, hist>>

\* npeers, nrpc = self.rpc_total() - self.rpcs0, nops = self.ops.load(), and
\* the two lines of the report
EndReport ==
  /\ pc.op = "end" /\ pc.at = "rpc_total"
  /\ pc' = Idle
  /\ ret' = [t |-> pc.t, npeers |-> n,
             nrpc |-> total_count - rpcs0, nops |-> ops]
  /\ lastOp' = [op |-> "end", raised |-> FALSE]
  /\ UNCHANGED <<cfgVars, statVars, ID, netVars, total_count, srvVars,
                 tmp, now, endVars, hist>>

\* Drop for Config: kill every server still in its slot, then check_timeout()
DropAct ==
  /\ ~dropped
  /\ pc = Idle
  /\ killed' = killed \cup {kvservers[i] : i \in {j \in Idx : kvservers[j] # 0}}
  /\ panicked' = (panicked \/ CheckTimeout)
  /\ dropped' = TRUE
  /\ ret' = NoRet
  /\ lastOp' = [op |-> "drop", elapsed |-> now - start, raised |-> CheckTimeout]
  /\ UNCHANGED <<cfgVars, statVars, ID, netVars, total_count, persist,
                 instPers, isLeader, writes, pc, tmp, now, hist>>

\* ------------------------------------------------------------ specifications
\* topology operations of the driver on a cluster that stays up
InitTopo == InitN(NPeers, MaxTopoOps, 0, 0)

NextTopo ==
  \/ \E i \in Idx, to \in ToSeqs : ConnectAct(i, to)
  \/ \E i \in Idx, from \in ToSeqs : DisconnectAct(i, from)
  \/ ConnectAllAct
  \/ \E p1 \in IdxSeqs, p2 \in IdxSeqs : PartitionAct(p1, p2)

SpecTopo == InitTopo /\ [][NextTopo]_vars

\* lifecycle and read operations of the driver, with topology operations
\* between them; no server saves here (the properties checked on these runs
\* are about link flags and registrations, which no save changes), the runs
\* with saves are SpecPersist, SpecSizes, SpecAck and SpecTotal
Next ==
  \/ \E i \in Idx, to \in ToSeqs : ConnectAct(i, to)
  \/ \E i \in Idx, from \in ToSeqs : DisconnectAct(i, from)
  \/ ConnectAllAct
  \/ LeaderAct
  \/ LeaderNext
  \/ LogSizeAct
  \/ LogSizeNext
  \/ SnapshotSizeAct
  \/ SnapshotSizeNext
  \/ AllAct
  \/ MakePartitionAct
  \/ MakePartitionNext
  \/ \E i \in Idx : ShutdownDisconnect(i)
  \/ ShutdownDeleteServer
  \/ ShutdownReadRaft
  \/ ShutdownRollOver
  \/ ShutdownKill
  \/ \E i \in Idx : StartEndnames(i)
  \/ StartName
  \/ StartReadRaft
  \/ StartBuild

Spec == Init /\ [][Next]_vars

\* lifecycle operations running against the saves of the server threads
InitPersist == InitN(NSaved, 0, 0, MaxWrites)

NextPersist ==
  \/ \E i \in Idx : ShutdownDisconnect(i)
  \/ ShutdownDeleteServer
  \/ ShutdownReadRaft
  \/ ShutdownRollOver
  \/ ShutdownKill
  \/ \E i \in Idx : StartEndnames(i)
  \/ StartName
  \/ StartReadRaft
  \/ StartBuild
  \/ \E k \in DOMAIN instPers, lr \in 1 .. MaxLen, ls \in 0 .. MaxLen : Save(k, lr, ls)

SpecPersist == InitPersist /\ [][NextPersist]_vars

\* topology operations and shutdown_server on a cluster whose servers save:
\* connect and disconnect name every peer, partition splits all the indices
\* into a group and its complement
InitTotal == InitN(NSaved, MaxLinkOps, 0, MaxWrites)

NextTotal ==
  \/ \E i \in Idx : ConnectAct(i, All)
  \/ \E i \in Idx : DisconnectAct(i, All)
  \/ ConnectAllAct
  \/ \E p1 \in IdxSeqs : PartitionAct(p1, Ascending(Idx \ Range(p1)))
  \/ \E i \in Idx : ShutdownDisconnect(i)
  \/ ShutdownDeleteServer
  \/ ShutdownReadRaft
  \/ ShutdownRollOver
  \/ ShutdownKill
  \/ \E k \in DOMAIN instPers : Save(k, MaxLen, 0)

SpecTotal == InitTotal /\ [][NextTotal]_vars

\* log_size() and snapshot_size() running against the saves of the server
\* threads, each save writing a snapshot one byte shorter than its raft state
NextSizes ==
  \/ \E i \in Idx : ShutdownDisconnect(i)
  \/ ShutdownDeleteServer
  \/ ShutdownReadRaft
  \/ ShutdownRollOver
  \/ ShutdownKill
  \/ \E i \in Idx : StartEndnames(i)
  \/ StartName
  \/ StartReadRaft
  \/ StartBuild
  \/ \E k \in DOMAIN instPers, l \in 1 .. MaxSizeLen : Save(k, l, l - 1)
  \/ LogSizeAct
  \/ LogSizeNext
  \/ SnapshotSizeAct
  \/ SnapshotSizeNext

SpecSizes == InitPersist /\ [][NextSizes]_vars

\* begin()/end()/drop against the clock and the RPC traffic
NextStats ==
  \/ \E d \in TickSteps : Tick(d)
  \/ \E sent \in 1 .. MaxSendPerOp : ClientOp(sent)
  \/ RaftRpc
  \/ Begin
  \/ End
  \/ EndElapsed
  \/ EndReport
  \/ DropAct

SpecStats == Init /\ [][NextStats]_vars

\* make_partition() on clusters of every size up to MaxN, some servers shut
\* down, against the leadership changes of the consensus nodes
InitLeader == \E nn \in 1 .. MaxN : InitN(nn, 0, 0, 0)

NextLeader ==
  \/ MakePartitionAct
  \/ MakePartitionNext
  \/ \E k \in DOMAIN instPers : LeaderChange(k)
  \/ \E i \in Idx : ShutdownDisconnect(i)
  \/ ShutdownDeleteServer
  \/ ShutdownReadRaft
  \/ ShutdownRollOver
  \/ ShutdownKill

SpecLeader == InitLeader /\ [][NextLeader]_vars

\* leader() on clusters of up to NPeers servers that are shut down and
\* restarted, against the leadership changes of the consensus nodes
InitScan == \E nn \in 1 .. NPeers : InitN(nn, 0, 0, 0)

NextScan ==
  \/ LeaderAct
  \/ LeaderNext
  \/ \E k \in DOMAIN instPers : LeaderChange(k)
  \/ \E i \in Idx : ShutdownDisconnect(i)
  \/ ShutdownDeleteServer
  \/ ShutdownReadRaft
  \/ ShutdownRollOver
  \/ ShutdownKill
  \/ \E i \in Idx : StartEndnames(i)
  \/ StartName
  \/ StartReadRaft
  \/ StartBuild

SpecScan == InitScan /\ [][NextScan]_vars

\* session operations of the driver
InitClient == InitN(NSaved, 0, 0, 0)

NextClient ==
  \/ \E to \in IdxSeqs : MakeClientBegin(to)
  \/ MakeClientName
  \/ MakeClientFinish
  \/ \E ck \in hist.sessions : DeleteClientAct(ck)
  \/ \E ck \in hist.sessions, to \in ToSeqs : ConnectClientAct(ck, to)
  \/ \E ck \in hist.sessions, from \in ToSeqs : DisconnectClientAct(ck, from)

SpecClient == InitClient /\ [][NextClient]_vars

\* every caller of uniqstring(): restarts and new sessions of the driver,
\* and the other threads of the process
NextNames ==
  \/ \E i \in Idx : ShutdownDisconnect(i)
  \/ ShutdownDeleteServer
  \/ ShutdownReadRaft
  \/ ShutdownRollOver
  \/ ShutdownKill
  \/ \E i \in Idx : StartEndnames(i)
  \/ StartName
  \/ StartReadRaft
  \/ StartBuild
  \/ MakeClientBegin(All)
  \/ MakeClientName
  \/ MakeClientFinish
  \/ OtherUniqstring

SpecNames == InitClient /\ [][NextNames]_vars
\* lifecycle operations running against saves whose replies reach clients
NextAck ==
  \/ \E i \in Idx : ShutdownDisconnect(i)
  \/ ShutdownDeleteServer
  \/ ShutdownReadRaft
  \/ ShutdownRollOver
  \/ ShutdownKill
  \/ \E i \in Idx : StartEndnames(i)
  \/ StartName
  \/ StartReadRaft
  \/ StartBuild
  \/ \E k \in DOMAIN instPers, ls \in {0, MaxLen} : Save(k, MaxLen, ls)
  \/ \E w \in 1 .. MaxWrites : Ack(w)

SpecAck == InitPersist /\ [][NextAck]_vars

\* lifecycle operations of a driver that also starts servers it did not
\* shut down, leadership changes, and the drop of the Config
InitLife == InitN(NSaved, 0, MaxBareStarts, 0)

NextLife ==
  \/ LeaderAct
  \/ LeaderNext
  \/ \E k \in DOMAIN instPers : LeaderChange(k)
  \/ \E i \in Idx : ShutdownDisconnect(i)
  \/ ShutdownDeleteServer
  \/ ShutdownReadRaft
  \/ ShutdownRollOver
  \/ ShutdownKill
  \/ \E i \in Idx : StartEndnames(i)
  \/ StartName
  \/ StartReadRaft
  \/ StartBuild
  \/ DropAct

SpecLife == InitLife /\ [][NextLife]_vars
\* ------------------------------------------------------------------ claims
\* the bytes instance k was constructed from
Handed(k) == hist.handed[k]

\* C1: after shutdown_server(i) then start_server(i) the new
\* instance is handed exactly the bytes saved[i] held when shutdown_server(i)
\* began; no save issued after that moment is visible to it.
C1_HandedBytesAreThoseBeforeShutdown ==
  (lastOp.op = "start_server" /\ hist.sd[lastOp.i].restart) =>
    LET i == lastOp.i
    IN Handed(kvservers[i]) = <<hist.sd[i].raft, hist.sd[i].snap>>

\* C2: after partition(p1, p2) with p1 and p2 disjoint, every link between the
\* groups is disabled in both directions, every link inside a group is
\* enabled, and every link with an end outside both groups keeps its flag.
C2_PartitionEffect ==
  [][lastOp'.op = "partition" =>
       LET g1 == Range(lastOp'.p1)
           g2 == Range(lastOp'.p2)
       IN \A a \in Idx, b \in Idx :
            /\ ((a \in g1 /\ b \in g2) \/ (a \in g2 /\ b \in g1)) => ~Link(a, b)'
            /\ ((a \in g1 /\ b \in g1) \/ (a \in g2 /\ b \in g2)) => Link(a, b)'
            /\ (a \notin g1 \cup g2 \/ b \notin g1 \cup g2)
                 => (Link(a, b)' = Link(a, b))]_vars

\* C2 witness: a partition into two non-empty groups that leaves out an index
\* which has one link disabled and one enabled
C2_Witness ==
  /\ lastOp.op = "partition"
  /\ lastOp.p1 # <<>> /\ lastOp.p2 # <<>>
  /\ \E o \in Idx \ (Range(lastOp.p1) \cup Range(lastOp.p2)) :
       /\ \E a \in Idx : ~Link(o, a) /\ ~Link(a, o)
       /\ \E b \in Idx : b # o /\ Link(o, b) /\ Link(b, o)

\* the indices whose slot is Running and whose node reports leadership now
Leading == {i \in Idx : kvservers[i] # 0 /\ kvservers[i] \in isLeader}

\* C3: make_partition() on n = 5 with a known leader L puts L in the group
\* that has no more members than the other, the other having 3 members.
C3_LeaderInMinority ==
  (lastOp.op = "make_partition" /\ n = 5 /\ lastOp.found.ok) =>
    LET L == lastOp.found.val
        mine == IF L \in Range(ret[2]) THEN ret[2] ELSE ret[1]
        other == IF L \in Range(ret[2]) THEN ret[1] ELSE ret[2]
    IN Len(mine) <= Len(other) /\ Len(other) = 3

\* C4: the two groups of make_partition() are disjoint, without duplicates,
\* cover 0..n-1, and the leader index (the one its leader() call answered, 0
\* without a leader) is the last element of the second group; with no
\* leadership change during the call that index is the smallest Running
\* leader, or 0 when there is none.
C4_PartitionCovers ==
  lastOp.op = "make_partition" =>
    LET l == IF lastOp.found.ok THEN lastOp.found.val ELSE 0
    IN /\ Range(ret[1]) \cap Range(ret[2]) = {}
       /\ Cardinality(Range(ret[1])) = Len(ret[1])
       /\ Cardinality(Range(ret[2])) = Len(ret[2])
       /\ Range(ret[1]) \cup Range(ret[2]) = Idx
       /\ Len(ret[1]) + Len(ret[2]) = n
       /\ ret[2] # <<>> /\ ret[2][Len(ret[2])] = l
       /\ ~lastOp.moved =>
            l = IF Leading = {} THEN 0
                ELSE CHOOSE i \in Leading : \A j \in Leading : i <= j

\* C4 witness: make_partition() on at least four peers whose leader is neither
\* the first nor the last index, a lower slot having given up leadership
\* while the call was scanning
C4_Witness ==
  /\ lastOp.op = "make_partition"
  /\ n >= 4
  /\ lastOp.moved
  /\ lastOp.found.ok /\ lastOp.found.val > 0 /\ lastOp.found.val < n - 1

\* C5: end() reports nops = the number of clerk operations issued since
\* begin(), and nrpc = total_count now minus total_count at begin(), nrpc >= nops.
C5_EndReportsOps ==
  (lastOp.op = "end" /\ ~lastOp.raised /\ hist.begun) =>
    /\ ret.nops = hist.issued
    /\ ret.nrpc = total_count - hist.base
    /\ ret.nrpc >= hist.issued

\* C6: leader() returns the smallest index whose slot is Running and whose
\* node reports leadership, and NoLeader exactly when there is none.
C6_LeaderIsFirstRunningLeader ==
  lastOp.op = "leader" =>
    IF Leading = {}
    THEN ~ret.ok /\ ret.err = "NoLeader"
    ELSE /\ ret.ok
         /\ ret.val \in Leading
         /\ \A i \in Leading : ret.val <= i

\* the Running indices below b whose node answered false when leader() asked
\* it, together with the indices below b whose slot is Absent
Passed(b) ==
  {i \in Idx : /\ i < b
               /\ \/ kvservers[i] = 0
                  \/ i \in DOMAIN lastOp.seen /\ ~lastOp.seen[i]}

\* C6 as amended: leader() asks the Running slots one after the other in
\* index order and returns the first index whose node answers true at the
\* moment it is asked, NoLeader when every Running node answered false at
\* the moment it was asked; it asks no slot that is Absent and never returns
\* one; when no node changes its report during the call, the answer is the
\* smallest Running index reporting leadership, NoLeader exactly when there
\* is none.
C6_LeaderIsFirstAnswer ==
  lastOp.op = "leader" =>
    /\ \A i \in DOMAIN lastOp.seen : kvservers[i] # 0
    /\ IF ret.ok
       THEN /\ kvservers[ret.val] # 0
            /\ ret.val \in DOMAIN lastOp.seen /\ lastOp.seen[ret.val]
            /\ Passed(ret.val) = {i \in Idx : i < ret.val}
       ELSE /\ ret.err = "NoLeader"
            /\ Passed(n) = Idx
    /\ ~lastOp.moved =>
         IF Leading = {}
         THEN ~ret.ok
         ELSE ret.ok /\ ret.val \in Leading /\ \A i \in Leading : ret.val <= i

\* C6 witness: leader() answers NoLeader although a Running slot reports
\* leadership: it took over after it had been asked; a lower slot is Absent
\* and the instance shut down there still reports leadership
C6_Witness ==
  /\ lastOp.op = "leader"
  /\ ~ret.ok
  /\ lastOp.moved
  /\ \E i \in Leading : \E j \in Idx : j < i /\ kvservers[j] = 0
  /\ killed \cap isLeader # {}

\* C7: after connect_all() on a cluster with all n servers started, every
\* link i -> j, i = j included, is enabled, and stays so through reads.
C7_ConnectAllConnectsAll ==
  hist.allConn => \A i \in Idx, j \in Idx : Link(i, j)

\* C7 witness: a read after a connect_all() that followed a restart
C7_Witness ==
  /\ hist.allConn
  /\ lastOp.op = "make_partition"
  /\ \E i \in Idx : kvservers[i] > n

\* C8: end() and drop raise the budget failure exactly when more than 120
\* seconds passed since construction at the moment they read the clock,
\* whatever begin() did; no other step does.
C8_BudgetFromConstruction ==
  /\ [](lastOp.op \in {"end:check_timeout", "drop"} =>
          /\ lastOp.raised <=> (now - start > 120)
          /\ lastOp.raised => panicked)
  /\ [][(panicked' /\ ~panicked) =>
          lastOp'.op \in {"end:check_timeout", "drop"}]_vars

\* C8 witness: end() raises although the phase begun last is younger than the
\* budget
C8_Witness ==
  /\ lastOp.op = "end:check_timeout"
  /\ lastOp.raised
  /\ hist.begun
  /\ now - t0 < 120

\* C9: log_size() and snapshot_size() return the maximum length over all n
\* indices, down servers included; a shutdown_server(i) followed by
\* start_server(i) with no save in between leaves both unchanged.
C9_SizesAreMaxima ==
  /\ lastOp.op = "log_size" => ret = MaxLog
  /\ lastOp.op = "snapshot_size" => ret = MaxSnap
  /\ (lastOp.op = "start_server" /\ hist.sd[lastOp.i].restart
        /\ ~hist.sd[lastOp.i].anyWrote) =>
       /\ MaxLog = hist.sd[lastOp.i].log
       /\ MaxSnap = hist.sd[lastOp.i].ssize

\* C9 as amended: log_size() and snapshot_size() read the n persisters one
\* after the other, down servers included, and return the maximum of the
\* lengths they read; with no save during the call that is the maximum of
\* the lengths held when it returns; a shutdown_server(i) followed by
\* start_server(i) with no save in between leaves both maxima unchanged.
C9_SizesAreMaximaOfReads ==
  /\ lastOp.op \in {"log_size", "snapshot_size"} =>
       /\ DOMAIN lastOp.seen = Idx
       /\ ret = MaxOf(Range(lastOp.seen))
  /\ (lastOp.op = "log_size" /\ ~lastOp.moved) => ret = MaxLog
  /\ (lastOp.op = "snapshot_size" /\ ~lastOp.moved) => ret = MaxSnap
  /\ (lastOp.op = "start_server" /\ hist.sd[lastOp.i].restart
        /\ ~hist.sd[lastOp.i].anyWrote) =>
       /\ MaxLog = hist.sd[lastOp.i].log
       /\ MaxSnap = hist.sd[lastOp.i].ssize

\* C9 witness: log_size() has read every persister, the one of a server
\* that is down included, and answers a size that is not the longest raft
\* state held when it returns, because of a save made during the call
C9_Witness ==
  /\ lastOp.op = "log_size"
  /\ lastOp.moved
  /\ ret # MaxLog
  /\ \E i \in DOMAIN lastOp.seen : kvservers[i] = 0

\* C10: from start_server(i) until a connect, connect_all or partition names
\* i, every outgoing link i -> j of the new instance is disabled.
C10_NotAutoConnected ==
  \A i \in hist.fresh : \A j \in Idx : ~Link(i, j)

\* C10 witness: start_server(i) has completed, nothing named i since, and an
\* incoming link of i is enabled
C10_Witness ==
  /\ lastOp.op = "start_server"
  /\ lastOp.i \in hist.fresh
  /\ \E j \in Idx : enabled[endnames[j][lastOp.i]]
\* the endpoint names connect_client/disconnect_client is asked to touch
Named(ck, js) == {clerks[ck][js[k]] : k \in 1 .. Len(js)}

\* C11: make_client(to) gives the session n endpoints of which exactly those
\* for the indices in `to` are enabled; connect_client and disconnect_client
\* set the flag of the session's endpoints for the listed indices and change
\* no other endpoint: not the session's other ends, not another session's,
\* not a server-to-server link.
C11_SessionsAreIndependent ==
  /\ [](lastOp.op = "make_client" =>
          /\ DOMAIN clerks[lastOp.ck] = Idx
          /\ \A j \in Idx : /\ clerks[lastOp.ck][j] \in DOMAIN enabled
                            /\ enabled[clerks[lastOp.ck][j]]
                                 <=> (j \in Range(lastOp.to)))
  /\ [][/\ lastOp'.op = "make_client" =>
             \A x \in DOMAIN enabled \ Range(clerks'[lastOp'.ck]) :
               enabled'[x] = enabled[x]
        /\ (lastOp'.op = "connect_client" /\ ~lastOp'.raised) =>
             \A x \in DOMAIN enabled :
               enabled'[x] = IF x \in Named(lastOp'.ck, lastOp'.to)
                             THEN TRUE ELSE enabled[x]
        /\ (lastOp'.op = "disconnect_client" /\ ~lastOp'.raised) =>
             \A x \in DOMAIN enabled :
               enabled'[x] = IF x \in Named(lastOp'.ck, lastOp'.from)
                             THEN FALSE ELSE enabled[x]]_vars

\* C11 witness: disconnect_client on a session that keeps another end
\* enabled, while a second session has the end for the same server enabled
C11_Witness ==
  /\ lastOp.op = "disconnect_client"
  /\ ~lastOp.raised
  /\ \E j \in Range(lastOp.from), k \in Idx :
       /\ ~enabled[clerks[lastOp.ck][j]]
       /\ enabled[clerks[lastOp.ck][k]]
       /\ \E other \in DOMAIN clerks \ {lastOp.ck} : enabled[clerks[other][j]]

\* the names the harness holds now: the endnames matrix, every session's
\* endpoint list and every session name, one entry per place
HeldNames ==
  {<<"end", i, j, endnames[i][j]>> : i \in Idx, j \in Idx}
    \cup {<<"clerk", c, j, clerks[c][j]>> : c \in DOMAIN clerks, j \in Idx}
    \cup {<<"session", c, 0, c>> : c \in DOMAIN clerks}

\* C12: uniqstring() never returns the same identifier twice, whoever calls
\* it and in whatever order; no two places of the endnames matrix, of the
\* sessions' endpoint lists and of the session names hold the same name.
C12_NamesAreUnique ==
  /\ \A a \in DOMAIN hist.names, b \in DOMAIN hist.names :
       a # b => hist.names[a] # hist.names[b]
  /\ \A x \in HeldNames, y \in HeldNames : x # y => x[4] # y[4]
  /\ \A x \in HeldNames : x[4] \in Range(hist.names)

\* C12 witness: a session was made after a restart, another thread drew a
\* name while make_client was drawing its own, and names have two digits
C12_Witness ==
  /\ lastOp.op = "make_client"
  /\ \E i \in Idx : kvservers[i] > n
  /\ Len(hist.names) > 11
  /\ \E j \in Idx, k \in DOMAIN hist.names :
       /\ j + 1 \in Idx
       /\ k + 2 \in DOMAIN hist.names
       /\ hist.names[k] = clerks[lastOp.ck][j]
       /\ hist.names[k + 2] = clerks[lastOp.ck][j + 1]

\* the steps of shutdown_server(i) in their order: when it deregisters, the
\* links of i are disabled; when it rolls over, server i is deregistered (no
\* new RPC reaches the old instance), the old instance is not killed yet, and
\* saved[i] becomes a fresh persister; when it kills, saved[i] is no longer
\* the persister the instance was built on.
C13_StepsInOrder ==
  [][LET i == lastOp'.i
         Cut == \A j \in Idx : ~Link(i, j) /\ ~Link(j, i)
     IN /\ lastOp'.op = "shutdown_server:delete_server" =>
             /\ Cut
             /\ Fmt(i) \notin servers'
        /\ lastOp'.op = "shutdown_server:roll_over" =>
             /\ Cut
             /\ Fmt(i) \notin servers
             /\ kvservers[i] \notin killed
             /\ saved'[i] \notin DOMAIN persist
        /\ lastOp'.op = "shutdown_server" =>
             /\ Fmt(i) \notin servers
             /\ kvservers[i] # 0 =>
                  /\ saved[i] # instPers[kvservers[i]]
                  /\ kvservers[i] \notin killed
                  /\ kvservers[i] \in killed'
             /\ kvservers'[i] = 0]_vars

\* C13: shutdown_server(i) disables the links of i, then deregisters server
\* i, then rolls saved[i] over, then kills (the order of C13_StepsInOrder),
\* and the fresh persister the roll-over stores holds a copy of the bytes the
\* old one holds.
C13_ShutdownOrder ==
  /\ C13_StepsInOrder
  /\ [][lastOp'.op = "shutdown_server:roll_over" =>
          persist'[saved'[lastOp'.i]] = persist[saved[lastOp'.i]]]_vars

\* save number w is contained in the bytes h handed to an instance
Contains(h, w) ==
  /\ h[1] # <<>> /\ h[1][1] >= w
  /\ h[2] # <<>> => h[2][1] >= w

\* C14: every save of the old instance whose positive reply reached a client
\* is contained in the bytes start_server(i) hands to the next instance, the
\* old instance saving and replying all through shutdown_server(i).
C14_AckedWritesAreHanded ==
  (lastOp.op = "start_server" /\ hist.sd[lastOp.i].restart) =>
    \A w \in hist.acked :
      hist.saves[w].k = hist.sd[lastOp.i].inst =>
        Contains(Handed(kvservers[lastOp.i]), w)

\* C14 witness: a restart of a server that had a save acknowledged before its
\* shutdown
C14_Witness ==
  /\ lastOp.op = "start_server"
  /\ hist.sd[lastOp.i].restart
  /\ \E w \in hist.acked : hist.saves[w].k = hist.sd[lastOp.i].inst

\* the (raft state, snapshot) pairs written together so far
SavedPairs ==
  {<<(<<>>), (<<>>)>>}
    \cup {<<hist.saves[w].raft, hist.saves[w].snap>> : w \in DOMAIN hist.saves}

\* C15: the pair a roll-over stores in the fresh persister is a pair one save
\* wrote together, or the initial empty pair.
C15_RollOverIsAtomic ==
  \A p \in DOMAIN persist : <<persist[p].raft, persist[p].snap>> \in SavedPairs

\* C16: between the driver's calls the link i -> j is enabled exactly when
\* the link j -> i is.
C16_LinksAreSymmetric ==
  pc = Idle => \A i \in Idx, j \in Idx : Link(i, j) <=> Link(j, i)

\* the un-killed instances built for index i
Live(i) == {k \in DOMAIN instPers : hist.slot[k] = i /\ k \notin killed}

\* C17: at most one un-killed instance exists per index, the one in its slot;
\* shutdown_server(i) leaves i Absent with its instance killed.
C17_OneLiveInstancePerIndex ==
  \A i \in Idx :
    /\ Live(i) \subseteq ({kvservers[i]} \ {0})
    /\ (lastOp.op = "shutdown_server" /\ lastOp.i = i) =>
         kvservers[i] = 0 /\ Live(i) = {}

\* C17 as amended: an un-killed instance outside its slot is one that a
\* start_server(i) called on a Running slot replaced; shutdown_server(i)
\* leaves i Absent with the instance it found in the slot killed; when every
\* start_server(i) was called on an Absent slot at most one un-killed instance
\* exists per index.
C17_OneLiveInstanceUnlessReplaced ==
  \A i \in Idx :
    /\ (Live(i) \ hist.replaced) \subseteq ({kvservers[i]} \ {0})
    /\ (lastOp.op = "shutdown_server" /\ lastOp.i = i) =>
         /\ kvservers[i] = 0
         /\ hist.sd[i].inst \in killed \cup {0}
    /\ hist.replaced = {} => Cardinality(Live(i)) <= 1

\* C17 witness: shutdown_server(i) has completed on a slot whose earlier
\* instance had been replaced by start_server(i) and is still not killed
C17_Witness ==
  /\ lastOp.op = "shutdown_server"
  /\ hist.sd[lastOp.i].inst \in killed
  /\ \E k \in hist.replaced \ killed : hist.slot[k] = lastOp.i

\* C18: no step of shutdown_server, connect, disconnect, connect_all or
\* partition faults whatever the slots hold, and each of the four topology
\* calls completes; shutdown_server(i) on an Absent slot completes, leaves the
\* slot Absent and leaves the bytes saved[i] holds unchanged.
C18_ShutdownOfAbsentSlot ==
  /\ ~panicked
  /\ lastOp.op \in {"connect", "disconnect", "connect_all", "partition"} =>
       pc = Idle
  /\ (lastOp.op = "shutdown_server" /\ hist.sd[lastOp.i].inst = 0) =>
       /\ pc = Idle
       /\ kvservers[lastOp.i] = 0
       /\ persist[saved[lastOp.i]].raft = hist.sd[lastOp.i].raft
       /\ persist[saved[lastOp.i]].snap = hist.sd[lastOp.i].snap

\* C18 witness: partition has completed naming an index whose last
\* shutdown_server found the slot Absent, with saved bytes held for that index
C18_Witness ==
  /\ lastOp.op = "partition"
  /\ \E i \in Range(lastOp.p1) \cup Range(lastOp.p2) :
       /\ kvservers[i] = 0
       /\ hist.sd[i].open
       /\ hist.sd[i].inst = 0
       /\ persist[saved[i]].raft # <<>>

\* C19: every enabled server-to-server endpoint is an outgoing endpoint of
\* the instance now Running in its slot: the endpoints of a shut-down
\* instance stay disabled.
C19_EnabledEndsBelongToRunning ==
  \A x \in DOMAIN enabled :
    enabled[x] => \E i \in Idx, j \in Idx : kvservers[i] # 0 /\ endnames[i][j] = x

\* C20: delete_client leaves the enabled flag of every endpoint unchanged,
\* and connect_client / disconnect_client for a session make_client
\* returned, deleted or not, complete without fault.
C20_SessionOpsNeverFault ==
  /\ [](lastOp.op \in {"connect_client", "disconnect_client"} =>
          ~lastOp.raised /\ ~panicked)
  /\ [][lastOp'.op = "delete_client" => enabled' = enabled]_vars
====
